---- MODULE Spec2Model ----
(***************************************************************************)
(* Model of h2o-py/h2o/transforms/decomposition.py (H2OPCA, H2OSVD) and of *)
(* the API test h2o-py/tests/testdir_apis/H2O_Module/                      *)
(* pyunit_h2omake_metrics.py.                                              *)
(*                                                                         *)
(* Python values are records [t, s, n, tup]: t is the Python type name, s  *)
(* the payload of a str (or the name of a class / object), n the payload   *)
(* of an int or bool, tup the elements of a tuple (strings).               *)
(***************************************************************************)
EXTENDS Integers, Sequences, FiniteSets, TLC

VARIABLES py3, cls, kwargs, parms, seenKeys, last, raised,
          tpc, m0, m1, m2, ty1, ty2, exc, outcome

estVars == <<py3, cls, kwargs, parms, seenKeys, last, raised>>
testVars == <<tpc, m0, m1, m2, ty1, ty2, exc, outcome>>
vars == <<py3, cls, kwargs, parms, seenKeys, last, raised,
          tpc, m0, m1, m2, ty1, ty2, exc, outcome>>

----------------------------------------------------------------------------
(* Python values *)

None == [t |-> "NoneType", s |-> "", n |-> 0, tup |-> <<>>]
Str(x) == [t |-> "str", s |-> x, n |-> 0, tup |-> <<>>]
IntVal(i) == [t |-> "int", s |-> "", n |-> i, tup |-> <<>>]
Bool(b) == [t |-> "bool", s |-> "", n |-> IF b THEN 1 ELSE 0, tup |-> <<>>]
Tuple(q) == [t |-> "tuple", s |-> "", n |-> 0, tup |-> q]
Object(c) == [t |-> c, s |-> "instance", n |-> 0, tup |-> <<>>]
ClassObj(c) == [t |-> "type", s |-> c, n |-> 0, tup |-> <<>>]

\* isinstance(v, tuple)
isinstance_tuple(v) == v.t = "tuple"

\* the largest number of keyword arguments one constructor call supplies
MaxSupplied == 2

\* the argument values a caller passes
Values == {None, IntVal(5), Str("Power"), Tuple(<<"Power", "GLRM">>)}

\* the keyword-argument dictionaries of one call, over the given names
KwargsOver(names) ==
  UNION {[S -> Values] : S \in {T \in SUBSET names : Cardinality(T) <= MaxSupplied}}

----------------------------------------------------------------------------
(* Signatures *)

\* def __init__(self, model_id=None, k=None, ...) of H2OPCA
H2OPCA_defaults ==
  [p \in {"model_id", "k", "max_iterations", "seed", "transform",
          "use_all_factor_levels", "pca_method", "ignore_const_cols",
          "impute_missing"} |->
     CASE p = "transform" ->
            Tuple(<<"NONE", "DEMEAN", "DESCALE", "STANDARDIZE", "NORMALIZE">>)
       [] p = "use_all_factor_levels" -> Bool(FALSE)
       [] p = "pca_method" -> Tuple(<<"GramSVD", "Power", "GLRM">>)
       [] p = "ignore_const_cols" -> Bool(TRUE)
       [] p = "impute_missing" -> Bool(FALSE)
       [] OTHER -> None]

\* def __init__(self, nv=None, max_iterations=None, ...) of H2OSVD
H2OSVD_defaults ==
  [p \in {"nv", "max_iterations", "transform", "seed",
          "use_all_factor_levels", "svd_method"} |-> None]

\* binding of a call's keyword arguments to the parameters of a signature
Bind(defaults, kw) ==
  [p \in DOMAIN defaults |-> IF p \in DOMAIN kw THEN kw[p] ELSE defaults[p]]

\* locals() inside __init__: self, the parameters and, when the interpreter
\* is Python 3, the implicit __class__ cell that naming super creates
locals(c, bound) ==
  [x \in DOMAIN bound \cup {"self"} \cup (IF py3 THEN {"__class__"} ELSE {}) |->
     CASE x = "self" -> Object(c)
       [] x = "__class__" -> ClassObj(c)
       [] OTHER -> bound[x]]

\* the comprehension without its filter
WithoutSelf_unfiltered(d) == d

\* {k: v for k, v in d.items() if k != "self"}
WithoutSelf(d) == [x \in {y \in DOMAIN d : y # "self"} |-> d[x]]

\* d[key] = value, for a key that may be new
SetItem(d, key, value) ==
  [x \in DOMAIN d \cup {key} |-> IF x = key THEN value ELSE d[x]]

\* H2OPCA.__init__ whose pca_method line falls back on transform
H2OPCA_init_copy_paste(bound) ==
  LET p1 == locals("H2OPCA", bound)
      p2 == WithoutSelf(p1)
      p3 == SetItem(p2, "pca_method",
                    IF isinstance_tuple(bound["pca_method"])
                      THEN Str("GramSVD") ELSE bound["transform"])
  IN SetItem(p3, "transform",
             IF isinstance_tuple(bound["transform"])
               THEN Str("NONE") ELSE bound["transform"])

\* H2OPCA.__init__ without its last line
H2OPCA_init_no_transform_line(bound) ==
  LET p1 == locals("H2OPCA", bound)
      p2 == WithoutSelf(p1)
  IN SetItem(p2, "pca_method",
             IF isinstance_tuple(bound["pca_method"])
               THEN Str("GramSVD") ELSE bound["pca_method"])

\* the body of H2OPCA.__init__: the _parms it leaves behind
H2OPCA_init(bound) ==
  LET p1 == locals("H2OPCA", bound)
      p2 == WithoutSelf(p1)
      p3 == SetItem(p2, "pca_method",
                    IF isinstance_tuple(bound["pca_method"])
                      THEN Str("GramSVD") ELSE bound["pca_method"])
  IN SetItem(p3, "transform",
             IF isinstance_tuple(bound["transform"])
               THEN Str("NONE") ELSE bound["transform"])

\* H2OSVD.__init__ that takes the first element of a tuple
H2OSVD_init_first_element(bound) ==
  LET p1 == locals("H2OSVD", bound)
      p2 == WithoutSelf(p1)
      p3 == SetItem(p2, "svd_method",
                    IF isinstance_tuple(bound["svd_method"])
                      THEN Str(Head(bound["svd_method"].tup))
                      ELSE bound["svd_method"])
      p4 == SetItem(p3, "transform",
                    IF isinstance_tuple(bound["transform"])
                      THEN Str(Head(bound["transform"].tup))
                      ELSE bound["transform"])
  IN SetItem(p4, "_rest_version", IntVal(99))

\* H2OSVD.__init__ without its last line
H2OSVD_init_no_rest_version(bound) ==
  LET p1 == locals("H2OSVD", bound)
      p2 == WithoutSelf(p1)
      p3 == SetItem(p2, "svd_method",
                    IF isinstance_tuple(bound["svd_method"])
                      THEN Str("GramSVD") ELSE bound["svd_method"])
  IN SetItem(p3, "transform",
             IF isinstance_tuple(bound["transform"])
               THEN Str("NONE") ELSE bound["transform"])

\* the body of H2OSVD.__init__: the _parms it leaves behind
H2OSVD_init(bound) ==
  LET p1 == locals("H2OSVD", bound)
      p2 == WithoutSelf(p1)
      p3 == SetItem(p2, "svd_method",
                    IF isinstance_tuple(bound["svd_method"])
                      THEN Str("GramSVD") ELSE bound["svd_method"])
      p4 == SetItem(p3, "transform",
                    IF isinstance_tuple(bound["transform"])
                      THEN Str("NONE") ELSE bound["transform"])
  IN SetItem(p4, "_rest_version", IntVal(99))

----------------------------------------------------------------------------
(* The estimator object and its callers *)

Classes == {"H2OPCA", "H2OSVD"}

EmptyDict == [x \in {} |-> None]

Frame(name) == [t |-> "H2OFrame", s |-> name, n |-> 0, tup |-> <<>>]

\* the frames passed as X, the values passed as y and as **params, and the
\* values the base class hands back
Frames == {Frame("fr1"), Frame("fr2")}
Ys == {None, Frame("fr2")}
Params == {EmptyDict, [x \in {"transform"} |-> Str("Power")]}
Results == {Frame("out1"), Frame("out2")}

NoCall ==
  [op |-> "none", X |-> None, y |-> None, params |-> EmptyDict,
   delegated |-> <<>>, dres |-> None, ret |-> None]

\* _parms after a call of the base-class fit or predict: the base class
\* keeps the parameter dictionary as construction left it
H2OEstimator_parms(p) == p

\* a call of a base-class method, as the base class receives it
Delegate(fn, args, kw) == [fn |-> fn, args |-> args, kw |-> kw]

----------------------------------------------------------------------------
(* The test h2omake_metrics; tpc is the line about to run *)

\* 1e-5, in units of 1e-6
Tol == 10

\* a metric value the server reports, in units of 1e-6
MetricVals == {0, Tol}

\* mse, rmse, logloss, mean_per_class_error of one metrics object
Metrics == [1..4 -> MetricVals]
NoMetrics == [i \in 1..4 |-> 0]

\* the classes of the objects h2o.make_metrics hands back
MetricTypes == {"H2OMultinomialModelMetrics", "H2OBinomialModelMetrics"}

\* what a statement of the try block can raise from below: a server or
\* client error of h2o, or the interruption of the run
Raisable == {"H2OServerError", "KeyboardInterrupt"}

\* a handler that matches AssertionError only
isinstance_AssertionError(e) == e = "AssertionError"

\* isinstance(e, Exception): KeyboardInterrupt, SystemExit and GeneratorExit
\* derive from BaseException only
isinstance_Exception(e) == e \notin {"KeyboardInterrupt", "SystemExit", "GeneratorExit"}

Running == [status |-> "running", type |-> "", msg |-> ""]
Passed == [status |-> "returned", type |-> "", msg |-> ""]
Raised(type, msg) == [status |-> "raised", type |-> type, msg |-> msg]

\* the statements of lines 17..28 and the line that follows each
CallLines == {17, 18, 19, 22, 23, 25, 26, 27, 28}
NextLine(l) == CASE l = 19 -> 22 [] l = 23 -> 25 [] l = 28 -> 30 [] l = 42 -> 45
                 [] OTHER -> l + 1

abs(x) == IF x < 0 THEN 0 - x ELSE x

\* control leaves the try block with exception e
Raise(e) ==
  /\ exc' = e
  /\ tpc' = 43

\* lines 17..28: import, asfactor, train, predict, assign, levels
Statement ==
  /\ tpc \in CallLines
  /\ \/ tpc' = NextLine(tpc) /\ UNCHANGED exc
     \/ \E e \in Raisable : Raise(e)
  /\ UNCHANGED <<m0, m1, m2, ty1, ty2, outcome>>
  /\ UNCHANGED estVars

\* line 30: m0 = model.model_performance(train=True)
ModelPerformance ==
  /\ tpc = 30
  /\ \/ \E m \in Metrics : m0' = m /\ tpc' = NextLine(tpc) /\ UNCHANGED exc
     \/ \E e \in Raisable : Raise(e) /\ UNCHANGED m0
  /\ UNCHANGED <<m1, m2, ty1, ty2, outcome>>
  /\ UNCHANGED estVars

\* line 31: m1 = h2o.make_metrics(predicted, actual, domain=domain)
MakeMetricsDomain ==
  /\ tpc = 31
  /\ \/ \E m \in Metrics, ty \in MetricTypes :
          m1' = m /\ ty1' = ty /\ tpc' = NextLine(tpc) /\ UNCHANGED exc
     \/ \E e \in Raisable : Raise(e) /\ UNCHANGED <<m1, ty1>>
  /\ UNCHANGED <<m0, m2, ty2, outcome>>
  /\ UNCHANGED estVars

\* line 32: m2 = h2o.make_metrics(predicted, actual)
MakeMetrics ==
  /\ tpc = 32
  /\ \/ \E m \in Metrics, ty \in MetricTypes :
          m2' = m /\ ty2' = ty /\ tpc' = NextLine(tpc) /\ UNCHANGED exc
     \/ \E e \in Raisable : Raise(e) /\ UNCHANGED <<m2, ty2>>
  /\ UNCHANGED <<m0, m1, ty1, outcome>>
  /\ UNCHANGED estVars

\* lines 33, 34: assert_is_type(m, H2OMultinomialModelMetrics)
AssertIsType ==
  /\ tpc \in {33, 34}
  /\ IF (IF tpc = 33 THEN ty1 ELSE ty2) = "H2OMultinomialModelMetrics"
       THEN tpc' = NextLine(tpc) /\ UNCHANGED exc
       ELSE Raise("H2OTypeError")
  /\ UNCHANGED <<m0, m1, m2, ty1, ty2, outcome>>
  /\ UNCHANGED estVars

\* lines 35..42: assert abs(m.f() - m1.f()) < 1e-5, m being m0 on lines
\* 35..38 and m2 on lines 39..42
AssertClose ==
  /\ tpc \in 35..42
  /\ LET i == ((tpc - 35) % 4) + 1
         m == IF tpc < 39 THEN m0 ELSE m2
     IN IF abs(m[i] - m1[i]) < Tol
          THEN tpc' = NextLine(tpc) /\ UNCHANGED exc
          ELSE Raise("AssertionError")
  /\ UNCHANGED <<m0, m1, m2, ty1, ty2, outcome>>
  /\ UNCHANGED estVars

\* lines 43, 44: except Exception as e: assert False, "..."; an exception the
\* clause does not match leaves the function as it is
Except ==
  /\ tpc = 43
  /\ tpc' = 45
  /\ outcome' = IF isinstance_Exception(exc)
                  THEN Raised("AssertionError",
                              "h2o.make_metrics() command not is working.")
                  ELSE Raised(exc, "")
  /\ UNCHANGED <<m0, m1, m2, ty1, ty2, exc>>
  /\ UNCHANGED estVars

\* the try block ran to its end: the function returns None
Return ==
  /\ tpc = 45
  /\ outcome = Running
  /\ outcome' = Passed
  /\ UNCHANGED <<tpc, m0, m1, m2, ty1, ty2, exc>>
  /\ UNCHANGED estVars

NextTest ==
  \/ Statement
  \/ ModelPerformance
  \/ MakeMetricsDomain
  \/ MakeMetrics
  \/ AssertIsType
  \/ AssertClose
  \/ Except
  \/ Return

----------------------------------------------------------------------------
(* Initial state and specifications *)

Init ==
  /\ py3 \in BOOLEAN
  /\ cls = "none"
  /\ kwargs = EmptyDict
  /\ parms = EmptyDict
  /\ seenKeys = [c \in Classes |-> {}]
  /\ last = NoCall
  /\ raised = "none"
  /\ tpc = 17
  /\ m0 = NoMetrics
  /\ m1 = NoMetrics
  /\ m2 = NoMetrics
  /\ ty1 = "unset"
  /\ ty2 = "unset"
  /\ exc = "none"
  /\ outcome = Running

\* H2OPCA(**kw) for some keywords kw: a keyword the signature does not declare raises TypeError
\* before the body runs; otherwise the body builds _parms
H2OPCA_new ==
  /\ cls = "none"
  /\ \E kw \in KwargsOver(DOMAIN H2OPCA_defaults \cup {"_rest_version"}) :
       IF DOMAIN kw \subseteq DOMAIN H2OPCA_defaults
         THEN /\ cls' = "H2OPCA"
              /\ kwargs' = kw
              /\ parms' = H2OPCA_init(Bind(H2OPCA_defaults, kw))
              /\ seenKeys' = [seenKeys EXCEPT !["H2OPCA"] = @ \cup {DOMAIN parms'}]
              /\ raised' = "none"
         ELSE /\ raised' = "TypeError"
              /\ UNCHANGED <<cls, kwargs, parms, seenKeys>>
  /\ UNCHANGED <<py3, last>>
  /\ UNCHANGED testVars

\* H2OSVD(**kw) for some keywords kw
H2OSVD_new ==
  /\ cls = "none"
  /\ \E kw \in KwargsOver(DOMAIN H2OSVD_defaults \cup {"_rest_version"}) :
       IF DOMAIN kw \subseteq DOMAIN H2OSVD_defaults
         THEN /\ cls' = "H2OSVD"
              /\ kwargs' = kw
              /\ parms' = H2OSVD_init(Bind(H2OSVD_defaults, kw))
              /\ seenKeys' = [seenKeys EXCEPT !["H2OSVD"] = @ \cup {DOMAIN parms'}]
              /\ raised' = "none"
         ELSE /\ raised' = "TypeError"
              /\ UNCHANGED <<cls, kwargs, parms, seenKeys>>
  /\ UNCHANGED <<py3, last>>
  /\ UNCHANGED testVars

\* H2OPCA.fit that hands y on to the base class
H2OPCA_fit_passes_y(X, y, params, r) ==
  /\ cls = "H2OPCA"
  /\ last.op = "none"
  /\ last' = [op |-> "fit", X |-> X, y |-> y, params |-> params,
              delegated |-> <<Delegate("H2OEstimator.fit", <<X, y>>, EmptyDict)>>,
              dres |-> r, ret |-> r]
  /\ parms' = H2OEstimator_parms(parms)
  /\ UNCHANGED <<py3, cls, kwargs, seenKeys, raised>>
  /\ UNCHANGED testVars

\* H2OPCA.fit(X, y, **params): return super(H2OPCA, self).fit(X); r is what
\* the base class returns
H2OPCA_fit(X, y, params, r) ==
  /\ cls = "H2OPCA"
  /\ last.op = "none"
  /\ last' = [op |-> "fit", X |-> X, y |-> y, params |-> params,
              delegated |-> <<Delegate("H2OEstimator.fit", <<X>>, EmptyDict)>>,
              dres |-> r, ret |-> r]
  /\ parms' = H2OEstimator_parms(parms)
  /\ UNCHANGED <<py3, cls, kwargs, seenKeys, raised>>
  /\ UNCHANGED testVars

\* H2OPCA.transform(X, y, **params): return self.predict(X)
H2OPCA_transform(X, y, params, r) ==
  /\ cls = "H2OPCA"
  /\ last.op = "none"
  /\ last' = [op |-> "transform", X |-> X, y |-> y, params |-> params,
              delegated |-> <<Delegate("predict", <<X>>, EmptyDict)>>,
              dres |-> r, ret |-> r]
  /\ parms' = H2OEstimator_parms(parms)
  /\ UNCHANGED <<py3, cls, kwargs, seenKeys, raised>>
  /\ UNCHANGED testVars

\* H2OSVD.fit that stores params in _parms before it delegates
H2OSVD_fit_set_params(X, y, params, r) ==
  /\ cls = "H2OSVD"
  /\ last.op = "none"
  /\ last' = [op |-> "fit", X |-> X, y |-> y, params |-> params,
              delegated |-> <<Delegate("H2OEstimator.fit", <<X>>, EmptyDict)>>,
              dres |-> r, ret |-> r]
  /\ parms' = H2OEstimator_parms([x \in DOMAIN parms \cup DOMAIN params |->
                 IF x \in DOMAIN params THEN params[x] ELSE parms[x]])
  /\ UNCHANGED <<py3, cls, kwargs, seenKeys, raised>>
  /\ UNCHANGED testVars

\* H2OSVD.fit(X, y, **params): return super(H2OSVD, self).fit(X)
H2OSVD_fit(X, y, params, r) ==
  /\ cls = "H2OSVD"
  /\ last.op = "none"
  /\ last' = [op |-> "fit", X |-> X, y |-> y, params |-> params,
              delegated |-> <<Delegate("H2OEstimator.fit", <<X>>, EmptyDict)>>,
              dres |-> r, ret |-> r]
  /\ parms' = H2OEstimator_parms(parms)
  /\ UNCHANGED <<py3, cls, kwargs, seenKeys, raised>>
  /\ UNCHANGED testVars

\* H2OSVD.transform(X, y, **params): return self.predict(X)
H2OSVD_transform(X, y, params, r) ==
  /\ cls = "H2OSVD"
  /\ last.op = "none"
  /\ last' = [op |-> "transform", X |-> X, y |-> y, params |-> params,
              delegated |-> <<Delegate("predict", <<X>>, EmptyDict)>>,
              dres |-> r, ret |-> r]
  /\ parms' = H2OEstimator_parms(parms)
  /\ UNCHANGED <<py3, cls, kwargs, seenKeys, raised>>
  /\ UNCHANGED testVars

\* the caller takes the returned value; the object is ready for the next call
Returned ==
  /\ last.op # "none"
  /\ last' = NoCall
  /\ UNCHANGED <<py3, cls, kwargs, parms, seenKeys, raised>>
  /\ UNCHANGED testVars

\* the caller drops the estimator; the next constructor call makes a new one
Dropped ==
  /\ cls # "none"
  /\ last.op = "none"
  /\ cls' = "none"
  /\ kwargs' = EmptyDict
  /\ parms' = EmptyDict
  /\ UNCHANGED <<py3, seenKeys, last, raised>>
  /\ UNCHANGED testVars

Next ==
  \/ H2OPCA_new
  \/ H2OSVD_new
  \/ \E X \in Frames, y \in Ys, params \in Params, r \in Results :
       H2OPCA_fit(X, y, params, r)
  \/ \E X \in Frames, y \in Ys, params \in Params, r \in Results :
       H2OPCA_transform(X, y, params, r)
  \/ \E X \in Frames, y \in Ys, params \in Params, r \in Results :
       H2OSVD_fit(X, y, params, r)
  \/ \E X \in Frames, y \in Ys, params \in Params, r \in Results :
       H2OSVD_transform(X, y, params, r)
  \/ Returned
  \/ Dropped

Spec == Init /\ [][Next]_vars

SpecTest == Init /\ [][NextTest]_vars

----------------------------------------------------------------------------
(* Properties *)

Defaults(c) == IF c = "H2OPCA" THEN H2OPCA_defaults ELSE H2OSVD_defaults
MethodKey(c) == IF c = "H2OPCA" THEN "pca_method" ELSE "svd_method"

\* the value the constructor received for parameter p: the caller's, or the
\* declared default when the caller left it out
Argument(p) == IF p \in DOMAIN kwargs THEN kwargs[p] ELSE Defaults(cls)[p]

Normalised == {"transform", MethodKey(cls)}
Chosen(p) == IF p = "transform" THEN Str("NONE") ELSE Str("GramSVD")

\* C1 as stated: a tuple-valued transform or method argument is stored as the
\* first element of that tuple, whichever tuple it is.
C1_FirstElementOfAnyTuple ==
  cls # "none" =>
    \A p \in Normalised :
      Argument(p).t = "tuple" => parms[p] = Str(Head(Argument(p).tup))

\* C1 amended: a tuple-valued transform argument is stored as "NONE" and a
\* tuple-valued method argument as "GramSVD", whichever tuple it is; that is
\* the first element of the tuple for the declared defaults of H2OPCA.
C1_FixedStringForTuple ==
  cls # "none" =>
    \A p \in Normalised :
      Argument(p).t = "tuple" =>
        /\ parms[p] = Chosen(p)
        /\ (cls = "H2OPCA" /\ p \notin DOMAIN kwargs) =>
              parms[p] = Str(Head(H2OPCA_defaults[p].tup))

C1_Witness ==
  /\ cls = "H2OSVD"
  /\ "svd_method" \in DOMAIN kwargs
  /\ kwargs["svd_method"] = Tuple(<<"Power", "GLRM">>)
  /\ parms["svd_method"] = Str("GramSVD")

\* C2: every constructor parameter is stored in _parms under its name with
\* the value the constructor received, except a tuple-valued transform or
\* method, which is stored as a single string.
C2_ForwardedUnchanged ==
  cls # "none" =>
    \A p \in DOMAIN Defaults(cls) :
      /\ p \in DOMAIN parms
      /\ IF p \in Normalised /\ Argument(p).t = "tuple"
           THEN parms[p].t = "str"
           ELSE parms[p] = Argument(p)

C2_Witness ==
  /\ cls = "H2OPCA"
  /\ DOMAIN kwargs = {"k", "pca_method"}
  /\ kwargs["k"] = IntVal(5)
  /\ kwargs["pca_method"] = Str("Power")
  /\ parms["k"] = IntVal(5)
  /\ parms["pca_method"] = Str("Power")
  /\ parms["ignore_const_cols"] = Bool(TRUE)

\* C3: all the instances of one class made so far have the same key set in
\* _parms; it holds every constructor parameter name and not "self".
C3_FixedKeySet ==
  \A c \in Classes :
    /\ Cardinality(seenKeys[c]) <= 1
    /\ \A K \in seenKeys[c] : DOMAIN Defaults(c) \subseteq K /\ "self" \notin K

C3_Witness ==
  /\ cls = "H2OPCA"
  /\ DOMAIN kwargs = {"k", "transform"}
  /\ seenKeys["H2OPCA"] = {DOMAIN parms}
  /\ seenKeys["H2OSVD"] # {}

\* C4: a step that keeps the estimator object (fit, transform, the return
\* from either) leaves _parms as it was, so _parms stays what construction
\* left.
C4_ParmsFrozen ==
  [][(cls # "none" /\ cls' = cls) => parms' = parms]_vars

C4_Witness ==
  /\ cls = "H2OSVD"
  /\ last.op = "fit"
  /\ last.params = [x \in {"transform"} |-> Str("Power")]
  /\ parms["transform"] = None

\* C5: a call of fit issues exactly one call, of the base-class fit with X
\* alone, and a call of transform exactly one call, of predict with X alone;
\* each returns what that call returned. The delegated call and the result
\* are therefore the same for two calls that differ in y or params only.
C5_PassThrough ==
  last.op # "none" =>
    /\ last.delegated =
         <<[fn |-> IF last.op = "fit" THEN "H2OEstimator.fit" ELSE "predict",
            args |-> <<last.X>>, kw |-> EmptyDict]>>
    /\ last.ret = last.dres

C5_Witness ==
  /\ cls = "H2OPCA"
  /\ last.op = "fit"
  /\ last.y = Frame("fr2")
  /\ last.params # EmptyDict
  /\ last.ret = Frame("out2")

\* C7 as stated: whatever a step of the try block raises, the test ends in
\* the AssertionError with the fixed message, and it returns normally
\* exactly when nothing was raised.
C7_EveryFailureBecomesAssertion ==
  outcome # Running =>
    IF exc = "none"
      THEN outcome = Passed
      ELSE outcome = Raised("AssertionError",
                            "h2o.make_metrics() command not is working.")

\* C7 amended: a failure whose exception derives from Exception (an h2o
\* error, a failed type check, a failed assert) ends the test in the
\* AssertionError with the fixed message; KeyboardInterrupt, SystemExit and
\* GeneratorExit leave the test as they are; the test returns normally
\* exactly when nothing was raised.
C7_ExceptionBecomesAssertion ==
  outcome # Running =>
    CASE exc = "none" -> outcome = Passed
      [] exc \in {"KeyboardInterrupt", "SystemExit", "GeneratorExit"} ->
           outcome = Raised(exc, "")
      [] OTHER -> outcome = Raised("AssertionError",
                                   "h2o.make_metrics() command not is working.")

C7_Witness ==
  /\ exc = "H2OServerError"
  /\ outcome = Raised("AssertionError",
                      "h2o.make_metrics() command not is working.")

\* C8: the transform and method entries of _parms are never tuples; left
\* out of an H2OPCA call they are "NONE" and "GramSVD", left out of an
\* H2OSVD call they are None.
C8_NeverTuple ==
  cls # "none" =>
    /\ \A p \in Normalised : parms[p].t # "tuple"
    /\ \A p \in Normalised \ DOMAIN kwargs :
         parms[p] = IF cls = "H2OSVD" THEN None
                    ELSE IF p = "transform" THEN Str("NONE") ELSE Str("GramSVD")

C8_Witness ==
  /\ cls = "H2OPCA"
  /\ DOMAIN kwargs = {"seed"}
  /\ parms["transform"] = Str("NONE")
  /\ parms["pca_method"] = Str("GramSVD")

\* C9: _parms of an H2OSVD has "_rest_version" at 99, no constructor call
\* that names _rest_version makes an object, and _parms of an H2OPCA has no
\* "_rest_version".
C9_RestVersion ==
  /\ "_rest_version" \notin DOMAIN kwargs
  /\ cls = "H2OSVD" =>
       "_rest_version" \in DOMAIN parms /\ parms["_rest_version"] = IntVal(99)
  /\ cls = "H2OPCA" => "_rest_version" \notin DOMAIN parms

C9_Witness ==
  /\ cls = "H2OSVD"
  /\ DOMAIN kwargs = {"nv", "seed"}
  /\ parms["_rest_version"] = IntVal(99)

\* C10: left out of the call, use_all_factor_levels is stored as the default
\* the docstring states: False for H2OPCA, True for H2OSVD.
C10_DocumentedDefault ==
  (cls # "none" /\ "use_all_factor_levels" \notin DOMAIN kwargs) =>
    parms["use_all_factor_levels"] = Bool(cls = "H2OSVD")

====
